---- MODULE Spec2Model ----
(***************************************************************************)
(* Model of the tool-calling orchestration engine of this repository:      *)
(* EliteAgenticCodingAgent.chat (src/src/agent/EliteAgenticCodingAgent.ts) *)
(* with the catalog AdvancedAgentTools (executeTool / executeTools) and    *)
(* the memo of ProjectContext; and of the earlier AgenticCodingAgent.chat   *)
(* with the catalog AgentTools, which has the same loop with another cap,  *)
(* no project summary and no clearing of the results held.                 *)
(*                                                                         *)
(* chat() is an async function; the model cuts it at its awaits:           *)
(*   Chat            lines 299-312  entry, user message, 'analyzing'       *)
(*   AnalyzeProject  lines 314-326  await analyzeProject(), locals         *)
(*   BeginRound      lines 329-361  loop test, context, chatStream call    *)
(*   GenerateOk      lines 361-386 / 403-407  chatStream settles, decode   *)
(*   GenerateFail    line  361      chatStream rejects                     *)
(*   SettleTool      executeTool of one call of the batch settles          *)
(*   FanIn           lines 386-402  Promise.all settles, tool_result       *)
(*   Return          lines 329, 410-416  loop exit and the response        *)
(*                                                                         *)
(* The specifications of the module:                                       *)
(*   Spec, SpecAgents  one chat() call at a time on one engine             *)
(*   SpecSession       a socket session (pages/api/socket.js): overlapping *)
(*                     chat() calls, get_history and clear_history         *)
(*   SpecParse         parseToolCalls applied to one bounded text          *)
(*   SpecTools         executeTool applied to one call of the catalog      *)
(*   SpecPaths         one call of FileSystemManager on a bounded path     *)
(*   SpecWrites        two write_file calls of one batch on one path       *)
(*   SpecStream        one chat() call seen delta by delta                 *)
(*   SpecRate          the rateLimit middlewares on their shared store     *)
(*   SpecSocket        the socket transport: sessions by socket id         *)
(*   SpecMiddleware    one request through applyMiddleware                 *)
(***************************************************************************)
EXTENDS Integers, Sequences, FiniteSets, TLC

\* ------------------------------------------------------------------ bounds
\* Number of chat() turns of one engine instance.
MaxTurns == 2
\* Leading rounds of a turn in which the generated text and the tool outcomes
\* range over all modelled inputs; later rounds request the default tool
\* (which succeeds) or stop.
MaxVaried == 2
\* Segments of a text given to the decoder on its own.
MaxSegments == 3
\* Tokens of a command line given to run_command and of a file given to
\* analyze_code.
MaxTokens == 3
MaxPathLen == 4
MaxContent == 2
MaxEvents == 3
MaxStreamRounds == 2
RateLimit == 2
WindowMs == 3
MaxTime == 4
MaxRequests == 4
\* Socket connections, agents constructed, and messages of one ledger.
MaxSockets == 2
MaxAgents == 3
MaxLedger == 2
\* Length of a middleware list, and the body size validateBodySize allows.
MaxMiddlewares == 3
MaxBody == 1

\* ------------------------------------------------------- program constants
EliteMaxIterations == 15
BasicMaxIterations == 10

\* ------------------------------------------------------------- data model
\* JavaScript's undefined / null, and the absent `error` of a ToolResult.
Undefined == "<undefined>"
Null == "<null>"

\* Truthiness of a string-or-undefined value (result.error ? ... : ...).
Truthy(v) == v \notin {Undefined, Null, ""}

\* Names registered by AdvancedAgentTools.registerAllTools and by
\* AgentTools.registerTools.
AdvancedTools ==
  {"read_file", "write_file", "list_files", "search_files", "analyze_project",
   "analyze_code", "find_dependencies", "git_status", "git_commit", "git_diff",
   "run_tests", "generate_tests", "install_package", "check_outdated",
   "run_command", "build_project"}
BasicTools ==
  {"read_file", "write_file", "list_files", "search_files", "delete_file",
   "get_working_directory"}

ToolCall(id, name) == [id |-> id, name |-> name, parameters |-> "f"]

\* A generated text is a sequence of segments: prose, or a fenced
\* ```tool_call block.  json tells the body of the block: "malformed" (a line
\* that does not parse), "object" (an object with an array-valued
\* tool_calls), "other" (parses, but has no tool_calls array) or "empty" (no
\* body: the closing fence is on the line after the opening fence).
Prose == [kind |-> "prose", json |-> "", tool_calls |-> <<>>]
Fence(json, calls) == [kind |-> "fence", json |-> json, tool_calls |-> calls]

TextDone == <<Prose>>
TextRead == <<Prose, Fence("object", <<ToolCall("t1", "read_file")>>)>>
TextTwo == <<Fence("object", <<ToolCall("t1", "write_file"), ToolCall("t2", "read_file")>>)>>
TextUnknown == <<Fence("object", <<ToolCall("t3", "no_such_tool"), ToolCall("t1", "read_file")>>)>>
TextBadGood == <<Fence("malformed", <<>>), Prose, Fence("object", <<ToolCall("t2", "read_file")>>)>>
TextBadOnly == <<Prose, Fence("malformed", <<>>), Fence("other", <<>>)>>

\* The default request of the rounds after MaxVaried, and all texts.
DefaultTexts == {TextDone, TextRead}
Texts == {TextDone, TextRead, TextTwo, TextUnknown, TextBadGood, TextBadOnly}

\* A message of the ledger or of a generation context.
Message(role, kind, text, results) ==
  [role |-> role, kind |-> kind, text |-> text, results |-> results]
SystemPrompt == Message("system", "prompt", <<>>, <<>>)
SummaryMessage == Message("system", "summary", <<>>, <<>>)

\* ------------------------------------------------------------------ state
VARIABLES
  agent,               \* which engine this is: "elite" or "basic"
  pc,                  \* where chat() is: idle, analyzing, loop, generating,
                       \* executing, returned, rejected
  turn,                \* chat() calls made on this engine
  conversationHistory, \* the ledger
  understanding,       \* ProjectContext.understanding: Null or "cached"
  actions,             \* chat locals
  allToolCalls,
  allToolResults,
  fullText,
  continueLoop,
  iterationCount,
  messages,            \* the context given to the last chatStream call
  response,            \* the text of the current round
  toolCalls,           \* the batch decoded in the current round
  toolResults,         \* what executeTools returned for it
  settled,             \* index of the batch -> its ToolResult, once settled
  genCalls,            \* chatStream invocations of this turn
  toolRuns,            \* executeTool invocations of this turn
  summaries,           \* per turn, the contexts that got the project summary
  observed,            \* what onAction received in this turn
  chatResult           \* the AgenticResponse chat() returned (read when pc = "returned")

vars == <<agent, pc, turn, conversationHistory, understanding, actions, allToolCalls,
          allToolResults, fullText, continueLoop, iterationCount, messages, response,
          toolCalls, toolResults, settled, genCalls, toolRuns, summaries, observed,
          chatResult>>

\* State of the other specifications of this module, which the engine
\* specifications leave alone.
VARIABLES
  chats,               \* SpecSession: one record per chat() call the socket
                       \* handler has started on the session's agent
  computed,            \* SpecSession: analyses that completed and set
                       \* understanding since the last clearCache()
  historyView,         \* SpecSession: the array getHistory() last returned
  parseInput,          \* SpecParse: the text given to parseToolCalls
  decoded,             \* SpecParse: what parseToolCalls returned for it
  toolOut,             \* SpecTools: the last executeTool call and its result
  fsOut,               \* SpecPaths: the last FileSystemManager call
  disk,                \* SpecWrites: the bytes of the file written
  writers,             \* SpecWrites: the write_file calls of the batch
  rateLimitStore,      \* SpecRate: client -> { count, resetTime }
  now,                 \* SpecRate: Date.now()
  requests,            \* SpecRate: the requests answered, with their outcome
  stream,              \* SpecStream: one chat() call, delta by delta
  connected,           \* SpecSocket: socket id -> "new", "open" or "closed"
  agentSessions,       \* SpecSocket: socket id -> the agent of its session
  ledgers,             \* SpecSocket: the ledger of every agent constructed
  emitted,             \* SpecSocket: the last event handled and its answer
  pipeline             \* SpecMiddleware: one request through applyMiddleware

sessionVars == <<chats, computed, historyView>>
parseVars == <<parseInput, decoded>>
toolVars == <<toolOut>>
fileVars == <<fsOut, disk, writers>>
rateVars == <<rateLimitStore, now, requests>>
socketVars == <<connected, agentSessions, ledgers, emitted>>
webVars == <<socketVars, pipeline>>
extraVars == <<toolVars, fileVars, rateVars, stream, webVars>>
allVars == <<vars, sessionVars, parseVars, extraVars>>

maxIterations == IF agent = "elite" THEN EliteMaxIterations ELSE BasicMaxIterations
RegisteredTools == IF agent = "elite" THEN AdvancedTools ELSE BasicTools

\* ------------------------------------------------------ pure functions
\* The lines of a text.  An opening fence is the line ```tool_call, a
\* closing fence the line ```; the body of a block is one line.
Line(kind, json, calls) == [kind |-> kind, json |-> json, tool_calls |-> calls]
RenderSegment(seg) ==
  IF seg.kind = "prose" THEN <<Line("prose", "", <<>>)>>
  ELSE IF seg.json = "empty"
  THEN <<Line("open", "", <<>>), Line("close", "", <<>>)>>
  ELSE <<Line("open", "", <<>>), Line("body", seg.json, seg.tool_calls),
         Line("close", "", <<>>)>>
RECURSIVE Render(_)
Render(text) ==
  IF text = <<>> THEN <<>> ELSE RenderSegment(Head(text)) \o Render(Tail(text))

\* The text "\n```" of the pattern matches at every line that begins with
\* three backquotes, an opening fence included.
StartsFence(line) == line.kind \in {"open", "close"}

\* JSON.parse(match[1].trim()) and the test of parsed.tool_calls, inside the
\* try: only a body that is one JSON object with an array tool_calls
\* contributes; anything else parses to nothing or throws and is skipped.
DecodeBody(body) ==
  IF Len(body) = 1 /\ body[1].kind = "body" /\ body[1].json = "object"
  THEN body[1].tool_calls ELSE <<>>

\* The loop over /```tool_call\n([\s\S]*?)\n```/g, line by line.  "out":
\* looking for "```tool_call\n".  "opened": just after it; the group is
\* followed by "\n```", so the line after the opening fence always belongs
\* to the group.  "body": the group ends before the first later line that
\* begins with ```, and the search resumes after those backquotes.
RECURSIVE ScanLines(_, _, _, _)
ScanLines(lines, i, mode, body) ==
  IF i > Len(lines) THEN <<>>
  ELSE IF mode = "out"
  THEN ScanLines(lines, i + 1, IF lines[i].kind = "open" THEN "opened" ELSE "out", <<>>)
  ELSE IF mode = "opened"
  THEN ScanLines(lines, i + 1, "body", <<lines[i]>>)
  ELSE IF StartsFence(lines[i])
  THEN DecodeBody(body) \o ScanLines(lines, i + 1, "out", <<>>)
  ELSE ScanLines(lines, i + 1, "body", Append(body, lines[i]))

\* parseToolCalls: the tool_calls of every match, in order.
parseToolCalls(text) == ScanLines(Render(text), 1, "out", <<>>)

JSONStringify(v) == <<"json", v>>

\* formatToolResults: one entry per result, in order.
formatToolResults(results) ==
  [i \in 1..Len(results) |->
     [name |-> results[i].name,
      id |-> results[i].id,
      status |-> IF Truthy(results[i].error) THEN "ERROR" ELSE "SUCCESS",
      output |-> IF Truthy(results[i].error) THEN <<"text", results[i].error>>
                 ELSE JSONStringify(results[i].result)]]

\* What tool.execute can do: return a payload or throw an Error.
HandlerOutcomes(name) ==
  {[ok |-> TRUE, value |-> "payload of " \o name],
   [ok |-> FALSE, value |-> "error in " \o name]}

\* Mutant: the not-found result does not carry the call's id.
executeToolNotFoundWithoutId(call, outcome) ==
  IF call.name \notin RegisteredTools
  THEN [id |-> Undefined, name |-> call.name, result |-> Null,
        error |-> "Tool '" \o call.name \o "' not found"]
  ELSE IF outcome.ok
  THEN [id |-> call.id, name |-> call.name, result |-> outcome.value,
        error |-> Undefined]
  ELSE [id |-> call.id, name |-> call.name, result |-> Null,
        error |-> outcome.value]

\* Mutant: an unknown tool gives a result without a failure message.
executeToolNotFoundSilent(call, outcome) ==
  IF call.name \notin RegisteredTools
  THEN [id |-> call.id, name |-> call.name, result |-> Null, error |-> Undefined]
  ELSE IF outcome.ok
  THEN [id |-> call.id, name |-> call.name, result |-> outcome.value,
        error |-> Undefined]
  ELSE [id |-> call.id, name |-> call.name, result |-> Null,
        error |-> outcome.value]

\* Mutant: the result of a failed handler keeps a payload beside the error.
executeToolErrorWithPayload(call, outcome) ==
  IF call.name \notin RegisteredTools
  THEN [id |-> call.id, name |-> call.name, result |-> Null,
        error |-> "Tool '" \o call.name \o "' not found"]
  ELSE IF outcome.ok
  THEN [id |-> call.id, name |-> call.name, result |-> outcome.value,
        error |-> Undefined]
  ELSE [id |-> call.id, name |-> call.name, result |-> "partial",
        error |-> outcome.value]

\* executeTool for one call and one behaviour of its handler.
executeTool(call, outcome) ==
  IF call.name \notin RegisteredTools
  THEN [id |-> call.id, name |-> call.name, result |-> Null,
        error |-> "Tool '" \o call.name \o "' not found"]
  ELSE IF outcome.ok
  THEN [id |-> call.id, name |-> call.name, result |-> outcome.value,
        error |-> Undefined]
  ELSE [id |-> call.id, name |-> call.name, result |-> Null,
        error |-> outcome.value]

\* Mutant: the results of failed calls are left out.
executeToolsDropFailed(calls, done) ==
  LET all == [i \in 1..Len(calls) |-> done[i].r]
      Succeeded(r) == r.error = Undefined
  IN SelectSeq(all, Succeeded)

\* Mutant: the results come in the reverse of the order of the calls.
executeToolsReversed(calls, done) ==
  [i \in 1..Len(calls) |-> done[Len(calls) + 1 - i].r]

\* executeTools: Promise.all resolves, when every call has settled, with the
\* results in the order of the calls.
executeTools(calls, done) == [i \in 1..Len(calls) |-> done[i].r]

ToolCallAction(call) ==
  [type |-> "tool_call", id |-> call.id, name |-> call.name,
   content |-> "Calling " \o call.name]
ToolResultAction(r) ==
  [type |-> "tool_result", id |-> r.id, name |-> r.name,
   content |-> IF Truthy(r.error) THEN r.error ELSE "Success"]
AnalyzingAction ==
  [type |-> "analyzing", id |-> "", name |-> "",
   content |-> "Analyzing project structure..."]

\* The for loops that push one action per call / per result.
ToolCallActions(calls) == [i \in 1..Len(calls) |-> ToolCallAction(calls[i])]
ToolResultActions(results) == [i \in 1..Len(results) |-> ToolResultAction(results[i])]

\* The object literal chat() returns.
AgenticResponse(text, acts, calls, results) ==
  IF agent = "elite"
  THEN [text |-> text, actions |-> acts, toolCalls |-> calls, toolResults |-> results,
        projectInsights |-> understanding]
  ELSE [text |-> text, actions |-> acts, toolCalls |-> calls, toolResults |-> results]
NoResponse == AgenticResponse(<<>>, <<>>, <<>>, <<>>)

\* ------------------------------------------------------------------- Init
InitState ==
  /\ pc = "idle"
  /\ turn = 0
  /\ conversationHistory = <<>>
  /\ understanding = Null
  /\ actions = <<>>
  /\ allToolCalls = <<>>
  /\ allToolResults = <<>>
  /\ fullText = <<>>
  /\ continueLoop = TRUE
  /\ iterationCount = 0
  /\ messages = <<>>
  /\ response = <<>>
  /\ toolCalls = <<>>
  /\ toolResults = <<>>
  /\ settled = <<>>
  /\ genCalls = 0
  /\ toolRuns = 0
  /\ summaries = <<>>
  /\ observed = <<>>
  /\ chatResult = NoResponse

\* No socket session and no decoder run: the state of the other
\* specifications when the engine is studied alone.
NoView == [taken |-> FALSE, alias |-> FALSE, arr |-> <<>>]
NotDecoded == [done |-> FALSE, calls |-> <<>>]
SessionIdle == chats = <<>> /\ computed = 0 /\ historyView = NoView
ParseIdle == parseInput = <<>> /\ decoded = NotDecoded


\* No handler run, no file operation, no request and no stream yet.
NoResult == [id |-> Undefined, name |-> Undefined, result |-> Null, error |-> Undefined]
NoToolRun ==
  [name |-> "", input |-> <<>>, spawned |-> FALSE, commands |-> {}, result |-> NoResult]
NoFsOp == [op |-> "", path |-> <<>>, error |-> "", target |-> <<>>]
NoStream ==
  [pc |-> "idle", round |-> 0, events |-> 0, generated |-> <<>>, roundText |-> <<>>,
   response |-> <<>>, fullText |-> <<>>, chunks |-> <<>>, decodedFrom |-> <<>>,
   calls |-> 0, text |-> <<>>]
ToolsIdle == toolOut = NoToolRun
FilesIdle == fsOut = NoFsOp /\ disk = <<>> /\ writers = <<>>
RateIdle == rateLimitStore = {} /\ now = 0 /\ requests = <<>>
StreamIdle == stream = NoStream
Sockets == 1..MaxSockets
NoSession == 0
NoEvent == [socket |-> 0, on |-> "", emit |-> ""]
SocketIdle ==
  /\ connected = [s \in Sockets |-> "new"]
  /\ agentSessions = [s \in Sockets |-> NoSession]
  /\ ledgers = <<>>
  /\ emitted = NoEvent
NoRequest == [limited |-> FALSE, contentLength |-> 0]
NoPipeline ==
  [pc |-> "idle", middlewares |-> <<>>, req |-> NoRequest, index |-> 0, ran |-> <<>>,
   handled |-> 0, status |-> 0]
PipelineIdle == pipeline = NoPipeline
ExtraIdle == ToolsIdle /\ FilesIdle /\ RateIdle /\ StreamIdle /\ SocketIdle /\ PipelineIdle
EngineIdle == agent = "elite" /\ InitState /\ SessionIdle /\ ParseIdle

Init == EngineIdle /\ ExtraIdle
InitAgents ==
  agent \in {"elite", "basic"} /\ InitState /\ SessionIdle /\ ParseIdle /\ ExtraIdle

\* ---------------------------------------------------------------- actions
\* Mutant: the message is pushed twice.
addMessageTwice(role, kind, text) ==
  conversationHistory \o <<Message(role, kind, text, <<>>), Message(role, kind, text, <<>>)>>

addMessage(role, kind, text) ==
  Append(conversationHistory, Message(role, kind, text, <<>>))

\* The locals declared at the top of chat().
ResetLocals ==
  /\ actions' = <<>>
  /\ allToolCalls' = <<>>
  /\ allToolResults' = <<>>
  /\ fullText' = <<>>
  /\ continueLoop' = TRUE
  /\ iterationCount' = 0
  /\ messages' = <<>>
  /\ response' = <<>>
  /\ toolCalls' = <<>>
  /\ toolResults' = <<>>
  /\ settled' = <<>>
  /\ genCalls' = 0
  /\ toolRuns' = 0
  /\ chatResult' = NoResponse

\* chat() entry: the user message and, in the elite engine with nothing
\* cached, the 'analyzing' action sent to the observer (not kept in actions).
Chat ==
  /\ pc \in {"idle", "returned", "rejected"}
  /\ turn < MaxTurns
  /\ turn' = turn + 1
  /\ conversationHistory' = addMessage("user", "user", <<>>)
  /\ summaries' = Append(summaries, 0)
  /\ ResetLocals
  /\ IF agent = "elite" /\ understanding = Null
     THEN /\ observed' = <<AnalyzingAction>>
          /\ pc' = "analyzing"
     ELSE /\ observed' = <<>>
          /\ pc' = "loop"
  /\ UNCHANGED <<agent, understanding>>

\* await analyzeProject() settles; a failure is caught and logged.
AnalyzeProject ==
  /\ pc = "analyzing"
  /\ \E ok \in BOOLEAN : understanding' = IF ok THEN "cached" ELSE Null
  /\ pc' = "loop"
  /\ UNCHANGED <<agent, turn, conversationHistory, actions, allToolCalls,
                 allToolResults, fullText, continueLoop, iterationCount, messages,
                 response, toolCalls, toolResults, settled, genCalls, toolRuns,
                 summaries, observed, chatResult>>

\* Mutants: the cap test off by one; the stop flag ignored.
LoopContinuesOffByOne == continueLoop /\ iterationCount <= maxIterations
LoopContinuesIgnoringStop == iterationCount < maxIterations

\* The while test.
LoopContinues == continueLoop /\ iterationCount < maxIterations

\* Mutant: only the elite engine feeds results back.
FeedbackDueEliteOnly(iter) == agent = "elite" /\ Len(allToolResults) > 0 /\ iter > 1

\* The feedback message of the results held, if any; the elite engine then
\* drops the results held (allToolResults.length = 0).
FeedbackDue(iter) ==
  IF agent = "elite" THEN Len(allToolResults) > 0 /\ iter > 1
  ELSE Len(allToolResults) > 0
FeedbackMessage ==
  Message("system", "toolResults", <<>>, formatToolResults(allToolResults))
\* Mutant: the results held are kept after the feedback is built.
ResultsKeptAfterFeedback == allToolResults
ResultsAfterFeedback == IF agent = "elite" THEN <<>> ELSE allToolResults

\* Mutant: the summary is pushed in every iteration.
SummaryDueEveryRound(iter) == agent = "elite"

\* The summary is pushed in the first iteration of the call (elite only).
SummaryDue(iter) == agent = "elite" /\ iter = 1

\* The loop test passes, the context is built and chatStream is called.
\* generateProjectSummary() awaits analyzeProject(), which runs the analysis
\* again when nothing is cached and may throw: chat() then rejects.
BeginRound ==
  /\ pc = "loop"
  /\ LoopContinues
  /\ iterationCount' = iterationCount + 1
  /\ response' = <<>>
  /\ LET iter == iterationCount + 1
         base == <<SystemPrompt>> \o conversationHistory
         withSummary == IF SummaryDue(iter) THEN Append(base, SummaryMessage) ELSE base
         context == IF FeedbackDue(iter) THEN Append(withSummary, FeedbackMessage)
                    ELSE withSummary
     IN \E ok \in BOOLEAN :
          IF SummaryDue(iter) /\ understanding = Null /\ ~ok
          THEN /\ pc' = "rejected"
               /\ UNCHANGED <<understanding, summaries, messages, allToolResults, genCalls>>
          ELSE /\ understanding' = IF SummaryDue(iter) THEN "cached" ELSE understanding
               /\ summaries' = IF SummaryDue(iter)
                               THEN [summaries EXCEPT ![turn] = @ + 1] ELSE summaries
               /\ messages' = context
               /\ allToolResults' = IF FeedbackDue(iter) THEN ResultsAfterFeedback
                                    ELSE allToolResults
               /\ genCalls' = genCalls + 1
               /\ pc' = "generating"
  /\ UNCHANGED <<agent, turn, conversationHistory, actions, allToolCalls, fullText,
                 continueLoop, toolCalls, toolResults, settled, toolRuns, observed,
                 chatResult>>

\* The texts the generation service may produce in the current round.
TextsOfRound == IF iterationCount <= MaxVaried THEN Texts ELSE DefaultTexts

\* The promise of an executeTool call that has not settled holds no result.
PendingResult == [id |-> Undefined, name |-> Undefined, result |-> Null, error |-> Undefined]

\* chatStream settles with a complete text, which is decoded; the calls are
\* announced and executeTools starts every call, or the turn stops with an
\* assistant message.
GenerateOk ==
  /\ pc = "generating"
  /\ \E text \in TextsOfRound :
       LET calls == parseToolCalls(text) IN
       /\ response' = text
       /\ fullText' = fullText \o text
       /\ toolCalls' = calls
       /\ toolResults' = <<>>
       /\ IF Len(calls) > 0
          THEN /\ actions' = actions \o ToolCallActions(calls)
               /\ allToolCalls' = allToolCalls \o calls
               /\ observed' = observed \o ToolCallActions(calls)
               /\ settled' = [i \in 1..Len(calls) |-> [done |-> FALSE, r |-> PendingResult]]
               /\ toolRuns' = toolRuns + Len(calls)
               /\ pc' = "executing"
               /\ UNCHANGED <<continueLoop, conversationHistory>>
          ELSE /\ continueLoop' = FALSE
               /\ conversationHistory' = addMessage("assistant", "text", text)
               /\ pc' = "loop"
               /\ UNCHANGED <<actions, allToolCalls, observed, settled, toolRuns>>
  /\ UNCHANGED <<agent, turn, understanding, allToolResults, iterationCount, messages,
                 genCalls, summaries, chatResult>>

\* Mutant: a rejected generation call is swallowed and the loop goes on.
GenerateFailRetried ==
  /\ pc = "generating"
  /\ iterationCount <= MaxVaried
  /\ pc' = "loop"
  /\ UNCHANGED <<agent, turn, conversationHistory, understanding, actions,
                 allToolCalls, allToolResults, fullText, continueLoop, iterationCount,
                 messages, response, toolCalls, toolResults, settled, genCalls,
                 toolRuns, summaries, observed, chatResult>>

\* Mutant: a rejected generation call takes the user message of the turn
\* back out of the ledger.
GenerateFailRolledBack ==
  /\ pc = "generating"
  /\ iterationCount <= MaxVaried
  /\ pc' = "rejected"
  /\ conversationHistory' = SubSeq(conversationHistory, 1, Len(conversationHistory) - 1)
  /\ UNCHANGED <<agent, turn, understanding, actions,
                 allToolCalls, allToolResults, fullText, continueLoop, iterationCount,
                 messages, response, toolCalls, toolResults, settled, genCalls,
                 toolRuns, summaries, observed, chatResult>>

\* chatStream rejects; nothing in chat() catches it.
GenerateFail ==
  /\ pc = "generating"
  /\ iterationCount <= MaxVaried
  /\ pc' = "rejected"
  /\ UNCHANGED <<agent, turn, conversationHistory, understanding, actions,
                 allToolCalls, allToolResults, fullText, continueLoop, iterationCount,
                 messages, response, toolCalls, toolResults, settled, genCalls,
                 toolRuns, summaries, observed, chatResult>>

\* How the handler of a call may end in the current round.
OutcomesOfRound(name) ==
  IF iterationCount <= MaxVaried THEN HandlerOutcomes(name)
  ELSE {o \in HandlerOutcomes(name) : o.ok}

\* executeTool of one pending call of the batch settles (in any order).
SettleTool ==
  /\ pc = "executing"
  /\ \E i \in 1..Len(toolCalls) :
       /\ ~settled[i].done
       /\ \E outcome \in OutcomesOfRound(toolCalls[i].name) :
            settled' = [settled EXCEPT
                          ![i] = [done |-> TRUE, r |-> executeTool(toolCalls[i], outcome)]]
  /\ UNCHANGED <<agent, pc, turn, conversationHistory, understanding, actions,
                 allToolCalls, allToolResults, fullText, continueLoop, iterationCount,
                 messages, response, toolCalls, toolResults, genCalls, toolRuns,
                 summaries, observed, chatResult>>

\* Mutant: the batch counts as settled as soon as one call has settled.
BatchAnySettled == \E i \in 1..Len(toolCalls) : settled[i].done

\* Promise.all settles when every promise of the batch has settled
\* (executeTool never rejects).
BatchSettled == \A i \in 1..Len(toolCalls) : settled[i].done

\* The batch has settled; its results are announced and held.
FanIn ==
  /\ pc = "executing"
  /\ BatchSettled
  /\ LET results == executeTools(toolCalls, settled) IN
       /\ toolResults' = results
       /\ actions' = actions \o ToolResultActions(results)
       /\ allToolResults' = allToolResults \o results
       /\ observed' = observed \o ToolResultActions(results)
  /\ continueLoop' = TRUE
  /\ settled' = <<>>
  /\ pc' = "loop"
  /\ UNCHANGED <<agent, turn, conversationHistory, understanding, allToolCalls,
                 fullText, iterationCount, messages, response, toolCalls, genCalls,
                 toolRuns, summaries, chatResult>>

\* The loop test fails and chat() returns.
Return ==
  /\ pc = "loop"
  /\ ~LoopContinues
  /\ chatResult' = AgenticResponse(fullText, actions, allToolCalls, allToolResults)
  /\ pc' = "returned"
  /\ UNCHANGED <<agent, turn, conversationHistory, understanding, actions,
                 allToolCalls, allToolResults, fullText, continueLoop, iterationCount,
                 messages, response, toolCalls, toolResults, settled, genCalls,
                 toolRuns, summaries, observed>>

EngineOnly == UNCHANGED <<sessionVars, parseVars, extraVars>>

Next ==
  \/ Chat /\ EngineOnly
  \/ AnalyzeProject /\ EngineOnly
  \/ BeginRound /\ EngineOnly
  \/ GenerateOk /\ EngineOnly
  \/ GenerateFail /\ EngineOnly
  \/ SettleTool /\ EngineOnly
  \/ FanIn /\ EngineOnly
  \/ Return /\ EngineOnly

Spec == Init /\ [][Next]_allVars
SpecAgents == InitAgents /\ [][Next]_allVars

\* ------------------------------------------------------- socket session
\* One socket session (pages/api/socket.js): every chat_message event calls
\* session.agent.chat() on the same EliteAgenticCodingAgent without waiting
\* for an earlier call, and get_history / clear_history events arrive at any
\* time.  Each chat() call is cut at the awaits that wait for I/O (the
\* analysis of the project, the generation service, the tools); what runs
\* between two of them is one step.  chats[c] holds the locals of call c.
ChatFrame(at, iter) == [pc |-> at, iterationCount |-> iter]

SessionOnly ==
  UNCHANGED <<agent, pc, turn, actions, allToolCalls, allToolResults, fullText,
              continueLoop, iterationCount, messages, response, toolCalls,
              toolResults, settled, genCalls, toolRuns, summaries, observed,
              chatResult, parseVars, extraVars>>

\* The texts of a call's round: tools are requested in the leading rounds only.
SessionTexts(iter) == IF iter <= MaxVaried THEN DefaultTexts ELSE {TextDone}

\* analyzeProject() as called by generateProjectSummary() in the first
\* iteration: the memo if there is one, otherwise another analysis.
FirstRound(memo) ==
  IF memo # Null THEN ChatFrame("generating", 1) ELSE ChatFrame("summarizing", 0)

\* chat_message: chat() appends the user message; with nothing cached it
\* starts analyzeProject(), else it goes on to its first generation call.
SocketChat ==
  /\ Len(chats) < MaxTurns
  /\ conversationHistory' = addMessage("user", "user", <<>>)
  /\ chats' = Append(chats, IF understanding = Null THEN ChatFrame("analyzing", 0)
                            ELSE FirstRound(understanding))
  /\ UNCHANGED <<understanding, computed, historyView>>
  /\ SessionOnly

\* The analysis started at the entry of call c settles.  It assigns the memo
\* only at its end; a failure is caught by chat().
AnalysisSettles ==
  \E c \in DOMAIN chats :
    /\ chats[c].pc = "analyzing"
    /\ \E ok \in BOOLEAN :
         LET memo == IF ok THEN "cached" ELSE understanding IN
         /\ understanding' = memo
         /\ computed' = IF ok THEN computed + 1 ELSE computed
         /\ chats' = [chats EXCEPT ![c] = FirstRound(memo)]
    /\ UNCHANGED <<conversationHistory, historyView>>
    /\ SessionOnly

\* The analysis started by generateProjectSummary() settles; its failure
\* rejects chat().
SummarySettles ==
  \E c \in DOMAIN chats :
    /\ chats[c].pc = "summarizing"
    /\ \E ok \in BOOLEAN :
         IF ok
         THEN /\ understanding' = "cached"
              /\ computed' = computed + 1
              /\ chats' = [chats EXCEPT ![c] = ChatFrame("generating", 1)]
         ELSE /\ chats' = [chats EXCEPT ![c] = ChatFrame("rejected", 0)]
              /\ UNCHANGED <<understanding, computed>>
    /\ UNCHANGED <<conversationHistory, historyView>>
    /\ SessionOnly

\* The generation call of call c settles with a text: without a tool call the
\* assistant message is appended and chat() returns, else the batch starts.
GenerationSettles ==
  \E c \in DOMAIN chats :
    /\ chats[c].pc = "generating"
    /\ \E text \in SessionTexts(chats[c].iterationCount) :
         IF Len(parseToolCalls(text)) > 0
         THEN /\ chats' = [chats EXCEPT ![c].pc = "executing"]
              /\ UNCHANGED conversationHistory
         ELSE /\ chats' = [chats EXCEPT ![c] = ChatFrame("returned", 0)]
              /\ conversationHistory' = addMessage("assistant", "text", text)
    /\ UNCHANGED <<understanding, computed, historyView>>
    /\ SessionOnly

\* The generation call of call c rejects, and chat() with it.
GenerationFails ==
  \E c \in DOMAIN chats :
    /\ chats[c].pc = "generating"
    /\ chats' = [chats EXCEPT ![c] = ChatFrame("rejected", 0)]
    /\ UNCHANGED <<conversationHistory, understanding, computed, historyView>>
    /\ SessionOnly

\* The batch of call c has settled: the loop test, then the next generation
\* call or the return.
ToolsSettle ==
  \E c \in DOMAIN chats :
    /\ chats[c].pc = "executing"
    /\ chats' = [chats EXCEPT ![c] =
                   IF chats[c].iterationCount < maxIterations
                   THEN ChatFrame("generating", chats[c].iterationCount + 1)
                   ELSE ChatFrame("returned", 0)]
    /\ UNCHANGED <<conversationHistory, understanding, computed, historyView>>
    /\ SessionOnly

\* clear_history: clearHistory() replaces the ledger and calls clearCache().
ClearHistory ==
  /\ conversationHistory' = <<>>
  /\ understanding' = Null
  /\ computed' = 0
  /\ UNCHANGED <<chats, historyView>>
  /\ SessionOnly

\* Mutant: getHistory returns the ledger array itself.
getHistoryAliased == [taken |-> TRUE, alias |-> TRUE, arr |-> conversationHistory]

\* getHistory: a new array with the ledger's elements.
getHistory == [taken |-> TRUE, alias |-> FALSE, arr |-> conversationHistory]

\* get_history: the caller receives the array.
GetHistory ==
  /\ historyView' = getHistory
  /\ UNCHANGED <<conversationHistory, understanding, computed, chats>>
  /\ SessionOnly

\* What a caller may do to an array it holds: pop, overwrite an element, push.
Junk == Message("user", "junk", <<>>, <<>>)
CallerEdits(arr) ==
  IF arr = <<>> THEN {<<Junk>>}
  ELSE {SubSeq(arr, 1, Len(arr) - 1), [arr EXCEPT ![1] = Junk]}

\* The caller mutates the array it received; the ledger changes with it only
\* if it is the same array.
CallerMutates ==
  /\ historyView.taken
  /\ \E arr \in CallerEdits(historyView.arr) :
       /\ historyView' = [historyView EXCEPT !.arr = arr]
       /\ conversationHistory' = IF historyView.alias THEN arr ELSE conversationHistory
  /\ UNCHANGED <<understanding, computed, chats>>
  /\ SessionOnly

SessionNext ==
  \/ SocketChat
  \/ AnalysisSettles
  \/ SummarySettles
  \/ GenerationSettles
  \/ GenerationFails
  \/ ToolsSettle
  \/ ClearHistory
  \/ GetHistory
  \/ CallerMutates

SpecSession == Init /\ [][SessionNext]_allVars

\* ---------------------------------------------------------------- decoder
\* parseToolCalls applied to one text of at most MaxSegments segments.
Segments ==
  {Prose, Fence("empty", <<>>), Fence("malformed", <<>>), Fence("other", <<>>),
   Fence("object", <<ToolCall("t1", "read_file")>>),
   Fence("object", <<ToolCall("t1", "write_file"), ToolCall("t2", "read_file")>>)}
BoundedTexts == UNION {[1..k -> Segments] : k \in 0..MaxSegments}

InitParse ==
  /\ agent = "elite" /\ InitState /\ SessionIdle /\ ExtraIdle
  /\ parseInput \in BoundedTexts
  /\ decoded = NotDecoded

Decode ==
  /\ ~decoded.done
  /\ decoded' = [done |-> TRUE, calls |-> parseToolCalls(parseInput)]
  /\ UNCHANGED <<vars, sessionVars, parseInput, extraVars>>

SpecParse == InitParse /\ [][Decode]_allVars

\* --------------------------------------------------------------- handlers
\* executeTool of AdvancedAgentTools applied to one call: run_command,
\* run_tests, build_project, analyze_code, and the names of the specified
\* catalog.  A string is a sequence of tokens; includes() is the test for a
\* contiguous subsequence.
Includes(str, sub) ==
  \E i \in 1..(Len(str) - Len(sub) + 1) : SubSeq(str, i, i + Len(sub) - 1) = sub

\* How the child process of execAsync ends: exit 0 with a clean stderr, exit 0
\* with "error"/"fail" in its output, a non-zero exit, or the timeout.
ExecOutcomes == {"exit0", "exit0errors", "nonzero", "timeout"}

\* The deny list of run_command.
dangerous ==
  {<<"rm", " ", "-rf">>, <<"dd", " ", "if=">>, <<"mkfs">>, <<":(){ :|:& };:">>,
   <<"chmod", " ", "-R", " ", "777">>}

\* Mutant: only a command that equals a deny-listed string is blocked.
IsDangerousExact(command) == command \in dangerous

IsDangerous(command) == \E cmd \in dangerous : Includes(command, cmd)

\* What a handler does: it returns a value or throws a message, and it has
\* or has not spawned a process.
Returned(value, proc) == [ok |-> TRUE, value |-> value, spawned |-> proc]
Thrown(message, proc) == [ok |-> FALSE, value |-> message, spawned |-> proc]

\* run_command: the deny-list test throws inside the try, before execAsync;
\* the catch rethrows every error as "Command failed: ...".
run_command(command, exec) ==
  IF IsDangerous(command)
  THEN Thrown("Command failed: Dangerous command blocked", FALSE)
  ELSE IF exec \in {"exit0", "exit0errors"}
  THEN Returned([success |-> TRUE, hasError |-> exec = "exit0errors"], TRUE)
  ELSE Thrown("Command failed: " \o exec, TRUE)

\* Mutant: run_tests lets the error of execAsync escape.
run_testsThrowing(exec) ==
  IF exec \in {"exit0", "exit0errors"}
  THEN Returned([success |-> TRUE, passed |-> exec = "exit0"], TRUE)
  ELSE Thrown(exec, TRUE)

\* run_tests: the catch returns a payload.
run_tests(exec) ==
  IF exec \in {"exit0", "exit0errors"}
  THEN Returned([success |-> TRUE, passed |-> exec = "exit0"], TRUE)
  ELSE Returned([success |-> FALSE, passed |-> FALSE], TRUE)

\* build_project: the catch returns a payload.
build_project(exec) ==
  IF exec \in {"exit0", "exit0errors"}
  THEN Returned([success |-> exec = "exit0", buildSucceeded |-> exec = "exit0"], TRUE)
  ELSE Returned([success |-> FALSE, buildSucceeded |-> FALSE], TRUE)

\* The tokens of a source file, and those that the two patterns of
\* calculateComplexity match ("if" without a parenthesis is not one).
CodeTokens == {"if (", "if", "else", "while (", "&&", "||", "x", "console.log", "await", "try"}
Conditionals == {"if (", "else", "switch", "case", "while (", "for ("}
LogicalOps == {"&&", "||"}
RECURSIVE CountIn(_, _)
CountIn(set, code) ==
  IF code = <<>> THEN 0
  ELSE (IF Head(code) \in set THEN 1 ELSE 0) + CountIn(set, Tail(code))

\* Mutant: no baseline of 1.
calculateComplexityNoBaseline(code) ==
  CountIn(Conditionals, code) + CountIn(LogicalOps, code)

calculateComplexity(code) ==
  CountIn(Conditionals, code) + CountIn(LogicalOps, code) + 1

\* findCodeIssues: the heuristics that the tokens of the model can trigger
\* (no token holds "any", "catch" or a line of more than 120 characters).
findCodeIssues(code) ==
  (IF Includes(code, <<"console.log">>)
   THEN <<"Contains console.log statements">> ELSE <<>>)
  \o (IF ~Includes(code, <<"try">>) /\ Includes(code, <<"await">>)
      THEN <<"Unhandled async errors">> ELSE <<>>)

\* analyze_code: readFile may throw; otherwise the analysis is returned.
analyze_code(code, readable) ==
  IF ~readable THEN Thrown("ENOENT", FALSE)
  ELSE Returned([success |-> TRUE, totalLines |-> 1,
                 complexity |-> calculateComplexity(code),
                 issues |-> findCodeIssues(code)], FALSE)

\* The tokens of a command line.
CommandTokens == {"rm", " ", "-rf", "mkfs", "npm", "dd", "if="}
Commands == UNION {[1..k -> CommandTokens] : k \in 1..MaxTokens}
Codes == UNION {[1..k -> CodeTokens] : k \in 0..MaxTokens}

\* The command lines that the handlers hand to execAsync.
testCmd(pattern) ==
  IF pattern # <<>> THEN <<"npm", " ", "test", " ", "--", " ">> \o pattern
  ELSE <<"npm", " ", "test">>
buildCmd == <<"npm", " ", "run", " ", "build">>
gitAddCmd(files) ==
  IF files # <<>> THEN <<"git", " ", "add", " ">> \o files
  ELSE <<"git", " ", "add", " ", "-A">>
gitCommitCmd(message) == <<"git", " ", "commit", " ", "-m", " ", "\"">> \o message \o <<"\"">>
gitDiffCmd(staged, file) ==
  <<"git", " ", "diff", " ">> \o (IF staged THEN <<"--staged">> ELSE <<>>) \o <<" ">> \o file
npmInstallCmd(dev, packagesStr) ==
  <<"npm", " ", "install", " ">> \o (IF dev THEN <<"-D">> ELSE <<>>) \o <<" ">> \o packagesStr

\* git_commit, git_diff, install_package: the command is spawned; when it
\* fails the catch rethrows.
git_commit(message, exec) ==
  IF exec = "exit0" THEN Returned([success |-> TRUE, message |-> message], TRUE)
  ELSE Thrown("Git commit failed: " \o exec, TRUE)
git_diff(exec) ==
  IF exec = "exit0" THEN Returned([success |-> TRUE, hasChanges |-> TRUE], TRUE)
  ELSE Thrown("Git diff failed: " \o exec, TRUE)
install_package(packagesStr, exec) ==
  IF exec = "exit0" THEN Returned([success |-> TRUE, packages |-> packagesStr], TRUE)
  ELSE Thrown("Package install failed: " \o exec, TRUE)

\* executeTool for a call of a registered tool whose handler did h.
Ran(name, input, h, commands) ==
  [name |-> name, input |-> input, spawned |-> h.spawned, commands |-> commands,
   result |-> executeTool(ToolCall("t1", name), [ok |-> h.ok, value |-> h.value])]

\* One call is studied at a time: the actions apply executeTool to a call
\* when none has been made.
ToolsOnly ==
  /\ toolOut = NoToolRun
  /\ UNCHANGED <<vars, sessionVars, parseVars, fileVars, rateVars, stream, webVars>>

RunCommand ==
  /\ ToolsOnly
  /\ \E command \in Commands, exec \in ExecOutcomes :
       LET h == run_command(command, exec) IN
         toolOut' = Ran("run_command", command, h, IF h.spawned THEN {command} ELSE {})

RunTests ==
  /\ ToolsOnly
  /\ \E exec \in ExecOutcomes, pattern \in {<<>>} \cup Commands :
       toolOut' = Ran("run_tests", <<exec>>, run_tests(exec), {testCmd(pattern)})

BuildProject ==
  /\ ToolsOnly
  /\ \E exec \in ExecOutcomes :
       toolOut' = Ran("build_project", <<exec>>, build_project(exec), {buildCmd})

AnalyzeCode ==
  /\ ToolsOnly
  /\ \E code \in Codes, readable \in BOOLEAN :
       toolOut' = Ran("analyze_code", code, analyze_code(code, readable), {})

\* A call that names a tool without a handler in this.tools: no handler runs.
DispatchUnregistered ==
  /\ ToolsOnly
  /\ \E name \in (AdvancedTools \cup BasicTools \cup {"no_such_tool"}) \ RegisteredTools :
       toolOut' = Ran(name, <<>>, Thrown("", FALSE), {})

\* git add fails, or git add succeeds and git commit is spawned.
GitCommit ==
  /\ ToolsOnly
  /\ \E message \in Commands, files \in {<<>>, <<"npm">>}, addFails \in BOOLEAN,
        exec \in {"exit0", "nonzero"} :
       toolOut' = Ran("git_commit", message,
                      git_commit(message, IF addFails THEN "nonzero" ELSE exec),
                      IF addFails THEN {gitAddCmd(files)}
                      ELSE {gitAddCmd(files), gitCommitCmd(message)})

GitDiff ==
  /\ ToolsOnly
  /\ \E file \in {<<>>} \cup Commands, staged \in BOOLEAN, exec \in {"exit0", "nonzero"} :
       toolOut' = Ran("git_diff", file, git_diff(exec), {gitDiffCmd(staged, file)})

InstallPackage ==
  /\ ToolsOnly
  /\ \E packagesStr \in Commands, dev \in BOOLEAN, exec \in {"exit0", "nonzero"} :
       toolOut' = Ran("install_package", packagesStr, install_package(packagesStr, exec),
                      {npmInstallCmd(dev, packagesStr)})

ToolsNext ==
  \/ RunCommand
  \/ GitCommit
  \/ GitDiff
  \/ InstallPackage
  \/ RunTests
  \/ BuildProject
  \/ AnalyzeCode
  \/ DispatchUnregistered

SpecTools == Init /\ [][ToolsNext]_allVars

\* ------------------------------------------------------------ file system
\* FileSystemManager (src/src/utils/fileSystem.ts).  A path is a string, a
\* sequence of characters; "env" stands for the three letters of that name.
\* The paths of the model hold no null byte and no upper-case letter, and
\* the contents written are far below MAX_FILE_SIZE.
PathChars == {"/", ".", "w", "x", "env"}
Paths == UNION {[1..k -> PathChars] : k \in 0..MaxPathLen}

\* this.workingDirectory, an absolute normalized path: the directory /w.
workingDirectory == <<"/", "w">>
SENSITIVE_PATTERNS == {<<".", "env">>}

startsWith(str, prefix) ==
  Len(prefix) <= Len(str) /\ SubSeq(str, 1, Len(prefix)) = prefix
isAbsolute(filePath) == filePath # <<>> /\ filePath[1] = "/"

\* path.resolve of POSIX: the segments between slashes, without the empty
\* ones and ".", a ".." removing the segment before it; no trailing slash.
RECURSIVE SplitPath(_, _, _)
SplitPath(str, i, cur) ==
  IF i > Len(str) THEN <<cur>>
  ELSE IF str[i] = "/" THEN <<cur>> \o SplitPath(str, i + 1, <<>>)
  ELSE SplitPath(str, i + 1, Append(cur, str[i]))
RECURSIVE NormalizeParts(_, _)
NormalizeParts(parts, stack) ==
  IF parts = <<>> THEN stack
  ELSE LET h == Head(parts) IN
    NormalizeParts(Tail(parts),
      IF h = <<>> \/ h = <<".">> THEN stack
      ELSE IF h = <<".", ".">>
      THEN (IF stack = <<>> THEN stack ELSE SubSeq(stack, 1, Len(stack) - 1))
      ELSE Append(stack, h))
RECURSIVE JoinParts(_)
JoinParts(parts) ==
  IF parts = <<>> THEN <<>> ELSE <<"/">> \o Head(parts) \o JoinParts(Tail(parts))
pathResolve(from, to) ==
  LET whole == IF isAbsolute(to) THEN to ELSE from \o <<"/">> \o to
      parts == NormalizeParts(SplitPath(whole, 1, <<>>), <<>>)
  IN IF parts = <<>> THEN <<"/">> ELSE JoinParts(parts)

\* A call of the manager ends with an error thrown before fs-extra is
\* called, or hands a full path to fs-extra.
Rejected(op, filePath, message) ==
  [op |-> op, path |-> filePath, error |-> message, target |-> <<>>]
Reached(op, filePath, fullPath) ==
  [op |-> op, path |-> filePath, error |-> "", target |-> fullPath]

\* resolvePath: the error it throws ("" when none) and the path it returns.
resolvePathError(filePath) ==
  IF isAbsolute(filePath) /\ ~startsWith(pathResolve(<<>>, filePath), workingDirectory)
  THEN "Absolute path outside working directory"
  ELSE ""
resolvePath(filePath) == pathResolve(workingDirectory, filePath)

\* validatePath: the error it throws, "" when it returns.
validatePath(filePath) ==
  IF Includes(filePath, <<".", ".">>)
  THEN "Invalid file path: directory traversal detected"
  ELSE IF resolvePathError(filePath) # "" THEN resolvePathError(filePath)
  ELSE IF ~startsWith(resolvePath(filePath), workingDirectory)
  THEN "Invalid file path: outside working directory"
  ELSE IF \E pattern \in SENSITIVE_PATTERNS : Includes(filePath, pattern)
  THEN "Access denied: cannot access sensitive file"
  ELSE ""

readFile(filePath) ==
  IF validatePath(filePath) # ""
  THEN Rejected("readFile", filePath, validatePath(filePath))
  ELSE Reached("readFile", filePath, resolvePath(filePath))

writeFile(filePath) ==
  IF validatePath(filePath) # ""
  THEN Rejected("writeFile", filePath, validatePath(filePath))
  ELSE Reached("writeFile", filePath, resolvePath(filePath))

deleteFile(filePath) ==
  IF validatePath(filePath) # ""
  THEN Rejected("deleteFile", filePath, validatePath(filePath))
  ELSE IF filePath = <<".">> \/ filePath = <<"/">> \/ filePath = <<>>
  THEN Rejected("deleteFile", filePath, "Cannot delete root or current directory")
  ELSE Reached("deleteFile", filePath, resolvePath(filePath))

\* One call is studied at a time.
PathsOnly ==
  /\ fsOut = NoFsOp
  /\ UNCHANGED <<vars, sessionVars, parseVars, toolVars, disk, writers, rateVars, stream, webVars>>

ReadFile ==
  /\ PathsOnly
  /\ \E filePath \in Paths : fsOut' = readFile(filePath)

WriteFile ==
  /\ PathsOnly
  /\ \E filePath \in Paths : fsOut' = writeFile(filePath)

DeleteFile ==
  /\ PathsOnly
  /\ \E filePath \in Paths : fsOut' = deleteFile(filePath)

PathsNext ==
  \/ ReadFile
  \/ WriteFile
  \/ DeleteFile

SpecPaths == Init /\ [][PathsNext]_allVars

\* ------------------------------------------------------- concurrent writes
\* Two write_file calls of one batch on the same path.  executeTools starts
\* both handlers before either has settled; each awaits writeFile(), whose
\* fs.writeFile opens the file with flag 'w' (which truncates it), writes
\* the content through its own descriptor from position 0, and closes it:
\* three operations of the thread pool, which those of the other call may
\* come between.  disk is the content of the file.
ContentChars == {"a", "b"}
Contents == UNION {[1..k -> ContentChars] : k \in 1..MaxContent}
EarlierContents == {<<>>, <<"o", "o", "o">>}

InitWrites ==
  /\ EngineIdle
  /\ ToolsIdle /\ RateIdle /\ StreamIdle /\ SocketIdle /\ PipelineIdle
  /\ fsOut = NoFsOp
  /\ disk \in EarlierContents
  /\ writers = <<>>

Writer(content) == [content |-> content, pc |-> "called", order |-> 0, result |-> NoResult]
Settled == Cardinality({i \in DOMAIN writers : writers[i].pc \in {"closed", "failed"}})
\* write(fd, content) at position 0 of a file that holds more than content.
Overwrite(file, content) ==
  content \o SubSeq(file, Len(content) + 1, Len(file))
write_file(content) ==
  [ok |-> TRUE, value |-> [success |-> TRUE, size |-> Len(content)]]

WritesOnly ==
  UNCHANGED <<vars, sessionVars, parseVars, toolVars, fsOut, rateVars, stream, webVars>>

\* executeTools maps the two calls to executeTool: both handlers run up to
\* their first await.
BeginWrites ==
  /\ writers = <<>>
  /\ \E c1 \in Contents, c2 \in Contents : writers' = <<Writer(c1), Writer(c2)>>
  /\ UNCHANGED disk
  /\ WritesOnly

OpenFile(i) ==
  /\ writers[i].pc = "called"
  /\ writers' = [writers EXCEPT ![i].pc = "opened"]
  /\ disk' = <<>>
  /\ WritesOnly

\* The open fails (EACCES, EISDIR...): writeFile rejects, the handler throws.
OpenFails(i) ==
  /\ writers[i].pc = "called"
  /\ writers' = [writers EXCEPT
                   ![i].pc = "failed",
                   ![i].order = Settled + 1,
                   ![i].result = executeTool(ToolCall(<<"w", i>>, "write_file"),
                                             [ok |-> FALSE, value |-> "EACCES"])]
  /\ UNCHANGED disk
  /\ WritesOnly

WriteData(i) ==
  /\ writers[i].pc = "opened"
  /\ writers' = [writers EXCEPT ![i].pc = "written"]
  /\ disk' = Overwrite(disk, writers[i].content)
  /\ WritesOnly

\* The close ends fs.writeFile; the handler returns its payload.
CloseFile(i) ==
  /\ writers[i].pc = "written"
  /\ writers' = [writers EXCEPT
                   ![i].pc = "closed",
                   ![i].order = Settled + 1,
                   ![i].result = executeTool(ToolCall(<<"w", i>>, "write_file"),
                                             write_file(writers[i].content))]
  /\ UNCHANGED disk
  /\ WritesOnly

WritesNext ==
  \/ BeginWrites
  \/ \E i \in DOMAIN writers : OpenFile(i)
  \/ \E i \in DOMAIN writers : OpenFails(i)
  \/ \E i \in DOMAIN writers : WriteData(i)
  \/ \E i \in DOMAIN writers : CloseFile(i)

SpecWrites == InitWrites /\ [][WritesNext]_allVars

\* ------------------------------------------------------------- streaming
\* One chat() call seen delta by delta (EliteAgenticCodingAgent.ts 358-368
\* with chatStream of the model adapters).  The service sends events; an
\* event carries a piece of text or none ("").  A text is the sequence of
\* its pieces; the pieces of a tool_call block are its opening fence, its
\* JSON body and its closing fence.  The fields of stream:
\*   round, events   the iteration and the number of events of its stream
\*   generated       the text pieces the service has produced, all rounds
\*   roundText       those of the current round
\*   response, fullText   the locals of chat()
\*   chunks          what the caller's onChunk has received
\*   decodedFrom, calls   the argument and the result size of parseToolCalls
\*   text            the text field of the response returned
OpenFence == "<fence tool_call>"
CallBody == "{name: read_file}"
CloseFence == "<fence>"
Events == {"", "hi", OpenFence, CallBody, CloseFence}

\* The number of calls that parseToolCalls decodes from a text given by its
\* pieces: each opening fence with the first closing fence after it is a
\* block, and a block counts when its body parses.
RECURSIVE ScanPieces(_, _, _, _)
ScanPieces(text, i, open, body) ==
  IF i > Len(text) THEN 0
  ELSE IF ~open
  THEN ScanPieces(text, i + 1, text[i] = OpenFence, <<>>)
  ELSE IF text[i] = CloseFence
  THEN (IF body = <<CallBody>> THEN 1 ELSE 0) + ScanPieces(text, i + 1, FALSE, <<>>)
  ELSE ScanPieces(text, i + 1, TRUE, Append(body, text[i]))
CallsIn(text) == ScanPieces(text, 1, FALSE, <<>>)

\* Mutant: the callback keeps only the current round in fullText.
OnChunkPerRound(st, chunk) ==
  [st EXCEPT !.response = st.response \o <<chunk>>,
             !.fullText = st.response \o <<chunk>>,
             !.chunks = st.chunks \o <<chunk>>]

\* The callback that chat() hands to chatStream.
OnChunk(st, chunk) ==
  [st EXCEPT !.response = st.response \o <<chunk>>,
             !.fullText = st.fullText \o <<chunk>>,
             !.chunks = st.chunks \o <<chunk>>]

StreamOnly ==
  UNCHANGED <<vars, sessionVars, parseVars, toolVars, fileVars, rateVars, webVars>>

\* chat() is called: fullText is empty and the loop is entered.
StreamChat ==
  /\ stream.pc = "idle"
  /\ stream' = [stream EXCEPT !.pc = "loop"]
  /\ StreamOnly

\* An iteration begins: response is emptied and chatStream is called.
StreamBegins ==
  /\ stream.pc = "loop"
  /\ stream.round < MaxStreamRounds
  /\ stream' = [stream EXCEPT !.pc = "streaming", !.round = stream.round + 1,
                              !.events = 0, !.roundText = <<>>, !.response = <<>>]
  /\ StreamOnly

\* The service sends an event; the adapter calls the callback when the event
\* carries text.
StreamEvent ==
  /\ stream.pc = "streaming"
  /\ stream.events < MaxEvents
  /\ \E content \in Events :
       LET sent == [stream EXCEPT
                      !.events = stream.events + 1,
                      !.generated = IF content = "" THEN stream.generated
                                    ELSE stream.generated \o <<content>>,
                      !.roundText = IF content = "" THEN stream.roundText
                                    ELSE stream.roundText \o <<content>>]
       IN stream' = IF content # "" THEN OnChunk(sent, content) ELSE sent
  /\ StreamOnly

\* The stream breaks: chatStream throws and chat() rejects.
StreamFails ==
  /\ stream.pc = "streaming"
  /\ stream' = [stream EXCEPT !.pc = "rejected"]
  /\ StreamOnly

\* The stream ends: chatStream resolves and the response is decoded.
StreamEnds ==
  /\ stream.pc = "streaming"
  /\ stream' = [stream EXCEPT !.pc = "decoded", !.decodedFrom = stream.response,
                              !.calls = CallsIn(stream.response)]
  /\ StreamOnly

\* The batch is executed and the loop goes on.
StreamTools ==
  /\ stream.pc = "decoded"
  /\ stream.calls > 0
  /\ stream' = [stream EXCEPT !.pc = "loop"]
  /\ StreamOnly

\* No tool call: the loop ends and the response is returned.
StreamReturn ==
  /\ stream.pc = "decoded"
  /\ stream.calls = 0
  /\ stream' = [stream EXCEPT !.pc = "returned", !.text = stream.fullText]
  /\ StreamOnly

StreamNext ==
  \/ StreamChat
  \/ StreamBegins
  \/ StreamEvent
  \/ StreamFails
  \/ StreamEnds
  \/ StreamTools
  \/ StreamReturn

SpecStream == Init /\ [][StreamNext]_allVars

\* ---------------------------------------------------------- rate limiting
\* rateLimit(limit, windowMs) of src/src/utils/security.ts.  rateLimitStore is
\* the Map of the module, a set of entries with distinct ids: every limiter
\* the routes create with rateLimit(...) reads and writes this one Map under
\* the client's id.  now is Date.now(); requests is the log of the requests
\* answered: the client, the limit of the limiter that answered, the time,
\* and whether next() was called.
Clients == {"c1", "c2"}
\* The limits of the limiters in use (the routes pass 5, 10, 20 and 30 with
\* the same window).
Limits == {RateLimit, RateLimit + 1}
Has(id) == \E e \in rateLimitStore : e.id = id
Get(id) == CHOOSE e \in rateLimitStore : e.id = id
Set(id, count, resetTime) ==
  {e \in rateLimitStore : e.id # id} \cup
    {[id |-> id, count |-> count, resetTime |-> resetTime]}

\* The middleware for one request: the store after it, and whether it calls
\* next() (otherwise it answers 429).
rateLimit(id, limit, windowMs) ==
  IF ~Has(id) \/ now > Get(id).resetTime
  THEN [store |-> Set(id, 1, now + windowMs), next |-> TRUE]
  ELSE IF Get(id).count >= limit
  THEN [store |-> rateLimitStore, next |-> FALSE]
  ELSE [store |-> Set(id, Get(id).count + 1, Get(id).resetTime), next |-> TRUE]

RateOnly ==
  UNCHANGED <<vars, sessionVars, parseVars, toolVars, fileVars, stream, webVars>>

Request ==
  /\ Len(requests) < MaxRequests
  /\ \E id \in Clients, limit \in Limits :
       LET answer == rateLimit(id, limit, WindowMs) IN
         /\ rateLimitStore' = answer.store
         /\ requests' = Append(requests, [id |-> id, limit |-> limit, at |-> now,
                                          next |-> answer.next])
  /\ UNCHANGED now
  /\ RateOnly

\* Time passes.
Tick ==
  /\ now < MaxTime
  /\ now' = now + 1
  /\ UNCHANGED <<rateLimitStore, requests>>
  /\ RateOnly

RateNext ==
  \/ Request
  \/ Tick

SpecRate == Init /\ [][RateNext]_allVars

\* ------------------------------------------------------ socket transport
\* pages/api/socket.js: agentSessions is the Map from socket id to the
\* session { agent, fileSystem }; an agent is named by the order of its
\* construction and ledgers[a] is the ledger of agent a, each message marked
\* with the socket whose chat_message put it there.  A socket id is given to
\* one connection only.  The chat_message handler is followed up to the
\* first await of agent.chat(), where the user message is in the ledger; the
\* rest of a chat() call is the subject of SpecSession.
SocketOnly ==
  UNCHANGED <<vars, sessionVars, parseVars, toolVars, fileVars, rateVars, stream, pipeline>>

Event(s, on, emit) == [socket |-> s, on |-> on, emit |-> emit]

\* io.on('connection').
Connect ==
  \E s \in Sockets :
    /\ connected[s] = "new"
    /\ connected' = [connected EXCEPT ![s] = "open"]
    /\ emitted' = Event(s, "connection", "")
    /\ UNCHANGED <<agentSessions, ledgers>>
    /\ SocketOnly

\* Mutant: a socket that has a session keeps it.
initAgentKeeping(s) ==
  IF agentSessions[s] # NoSession THEN agentSessions
  ELSE [agentSessions EXCEPT ![s] = Len(ledgers) + 1]

\* agentSessions.set(socket.id, { agent, fileSystem }) with the agent just
\* constructed.
initAgent(s) == [agentSessions EXCEPT ![s] = Len(ledgers) + 1]

\* init_agent: the model and the agent are constructed and the session is
\* set, or the construction throws and an error is emitted.
InitAgent ==
  \E s \in Sockets :
    /\ connected[s] = "open"
    /\ \/ /\ Len(ledgers) < MaxAgents
          /\ ledgers' = Append(ledgers, <<>>)
          /\ agentSessions' = initAgent(s)
          /\ emitted' = Event(s, "init_agent", "agent_initialized")
       \/ /\ emitted' = Event(s, "init_agent", "error")
          /\ UNCHANGED <<agentSessions, ledgers>>
    /\ UNCHANGED connected
    /\ SocketOnly

\* chat_message: without a session an error is emitted; with one, chat_start
\* is emitted and session.agent.chat() appends the user message.
ChatMessage ==
  \E s \in Sockets :
    /\ connected[s] = "open"
    /\ IF agentSessions[s] = NoSession
       THEN /\ emitted' = Event(s, "chat_message", "error")
            /\ UNCHANGED ledgers
       ELSE /\ Len(ledgers[agentSessions[s]]) < MaxLedger
            /\ emitted' = Event(s, "chat_message", "chat_start")
            /\ ledgers' = [ledgers EXCEPT ![agentSessions[s]] = Append(@, s)]
    /\ UNCHANGED <<connected, agentSessions>>
    /\ SocketOnly

\* disconnect: agentSessions.delete(socket.id).
Disconnect ==
  \E s \in Sockets :
    /\ connected[s] = "open"
    /\ connected' = [connected EXCEPT ![s] = "closed"]
    /\ agentSessions' = [agentSessions EXCEPT ![s] = NoSession]
    /\ emitted' = Event(s, "disconnect", "")
    /\ UNCHANGED ledgers
    /\ SocketOnly

SocketNext ==
  \/ Connect
  \/ InitAgent
  \/ ChatMessage
  \/ Disconnect

SpecSocket == Init /\ [][SocketNext]_allVars

\* ---------------------------------------------------- middleware composer
\* applyMiddleware(handler, middlewares) of src/src/utils/security.ts with
\* the three middlewares of that file.  pipeline is one request: the list,
\* the request (whether the limiter finds the client over its limit, and the
\* content-length), index, the middlewares run so far, the number of calls
\* of the handler and the status a middleware answered with (0: none).
Middlewares == {"securityHeaders", "rateLimit", "validateBodySize"}
RECURSIVE ListsUpTo(_)
ListsUpTo(n) ==
  IF n = 0 THEN {<<>>}
  ELSE ListsUpTo(n - 1) \cup
       {Append(l, m) : l \in {k \in ListsUpTo(n - 1) : Len(k) = n - 1}, m \in Middlewares}
Requests == [limited : BOOLEAN, contentLength : 0..(MaxBody + 1)]

\* The status a middleware answers with instead of calling next(), 0 if it
\* answers nothing.
Answer(mw, req) ==
  IF mw = "rateLimit" /\ req.limited THEN 429
  ELSE IF mw = "validateBodySize" /\ req.contentLength > MaxBody THEN 413
  ELSE 0

\* Mutant: a middleware calls next() also after answering.
CallsNextAlways(mw, req) == TRUE

\* Whether the middleware calls next().
CallsNext(mw, req) == Answer(mw, req) = 0

\* The closure next of one request: the middleware at index is called and
\* index advanced, or past the end the handler is called.
next(p) ==
  IF p.index < Len(p.middlewares)
  THEN LET middleware == p.middlewares[p.index + 1]
           q == [p EXCEPT !.index = p.index + 1,
                          !.ran = Append(p.ran, middleware),
                          !.status = IF Answer(middleware, p.req) # 0
                                     THEN Answer(middleware, p.req) ELSE p.status]
       IN IF CallsNext(middleware, p.req) THEN q ELSE [q EXCEPT !.pc = "ended"]
  ELSE [p EXCEPT !.pc = "handled", !.handled = p.handled + 1]

PipelineOnly ==
  UNCHANGED <<vars, sessionVars, parseVars, toolVars, fileVars, rateVars, stream, socketVars>>

\* A request arrives at the function applyMiddleware returned: index = 0.
Apply ==
  /\ pipeline.pc = "idle"
  /\ \E middlewares \in ListsUpTo(MaxMiddlewares), req \in Requests :
       pipeline' = [NoPipeline EXCEPT !.pc = "running", !.middlewares = middlewares,
                                      !.req = req]
  /\ PipelineOnly

\* next() is called: by the returned function at first, then by a middleware.
CallNext ==
  /\ pipeline.pc = "running"
  /\ pipeline' = next(pipeline)
  /\ PipelineOnly

PipelineNext ==
  \/ Apply
  \/ CallNext

SpecMiddleware == Init /\ [][PipelineNext]_allVars

\* ----------------------------------------------------------------- claims
NoFence(text) == \A i \in 1..Len(text) : text[i].kind # "fence"
RECURSIVE CountKind(_, _)
CountKind(k, s) ==
  IF s = <<>> THEN 0
  ELSE (IF Head(s).kind = k THEN 1 ELSE 0) + CountKind(k, Tail(s))
RECURSIVE CountType(_, _)
CountType(t, s) ==
  IF s = <<>> THEN 0
  ELSE (IF Head(s).type = t THEN 1 ELSE 0) + CountType(t, Tail(s))
RECURSIVE SumSeq(_)
SumSeq(s) == IF s = <<>> THEN 0 ELSE Head(s) + SumSeq(Tail(s))

\* C1: in any turn the number of generation calls (chatStream invocations)
\* never exceeds the iteration cap K (15 in the elite engine, 10 in the basic
\* one); once K rounds are done no further round can start and chat() can
\* only return.
C1_GenerationCallsBounded ==
  /\ genCalls <= maxIterations
  /\ iterationCount <= maxIterations
  /\ (pc = "loop" /\ iterationCount = maxIterations)
       => (~ENABLED BeginRound /\ ENABLED Return)
C1_Witness ==
  /\ pc = "returned"
  /\ genCalls = maxIterations
  /\ continueLoop

\* C2: executeTools on a batch of N calls with pairwise distinct ids returns
\* exactly N results, the i-th with the id and name of the i-th call, and the
\* set of result ids is the set of call ids, whether the calls succeed, fail
\* or name an unknown tool.
DistinctIds(calls) ==
  \A i, j \in 1..Len(calls) : calls[i].id = calls[j].id => i = j
C2_ResultsPairWithCalls ==
  (pc # "executing" /\ DistinctIds(toolCalls)) =>
    /\ Len(toolResults) = Len(toolCalls)
    /\ \A i \in 1..Len(toolCalls) :
         /\ toolResults[i].id = toolCalls[i].id
         /\ toolResults[i].name = toolCalls[i].name
    /\ {toolResults[i].id : i \in 1..Len(toolResults)}
         = {toolCalls[i].id : i \in 1..Len(toolCalls)}
C2_Witness ==
  /\ pc = "loop"
  /\ Len(toolResults) = 2
  /\ toolResults[1].error = "Tool 'no_such_tool' not found"
  /\ toolResults[2].error = "error in read_file"

\* C3: when the first generated text of a turn has no fenced block, chat()
\* makes exactly one generation call, runs no tool, appends that text to the
\* ledger as an assistant message, and returns empty toolCalls, toolResults
\* and actions.
C3_NoBlockOneRound ==
  (iterationCount = 1 /\ pc \in {"loop", "returned"} /\ NoFence(response)) =>
    /\ genCalls = 1
    /\ toolRuns = 0
    /\ conversationHistory[Len(conversationHistory)]
         = Message("assistant", "text", response, <<>>)
    /\ ~ENABLED BeginRound
    /\ pc = "returned" =>
         /\ chatResult.toolCalls = <<>>
         /\ chatResult.toolResults = <<>>
         /\ chatResult.actions = <<>>
         /\ chatResult.text = response
C3_Witness ==
  /\ pc = "returned"
  /\ iterationCount = 1
  /\ response = TextDone

\* C4: when the round that reaches the cap decodes a non-empty batch, the
\* batch is still executed (the returned toolResults is non-empty) and chat()
\* returns without a further generation call.
C4_CapRoundBatchExecuted ==
  (iterationCount = maxIterations /\ Len(toolCalls) > 0 /\ pc \in {"loop", "returned"}) =>
    /\ Len(toolResults) = Len(toolCalls)
    /\ genCalls = maxIterations
    /\ ~ENABLED BeginRound
    /\ pc = "returned" =>
         /\ chatResult.toolResults = toolResults
         /\ chatResult.toolResults # <<>>
C4_Witness ==
  /\ pc = "returned"
  /\ iterationCount = maxIterations
  /\ Len(chatResult.toolResults) > 0

\* C5: a turn ended by the iteration cap completes in a form that differs
\* from that of a natural stop (a returned AgenticResponse with the five
\* fields text, actions, toolCalls, toolResults, projectInsights): it is
\* signalled by the way chat() completes or by the shape of what it returns.
NaturalStopForm ==
  [completion |-> "returned",
   fields |-> {"text", "actions", "toolCalls", "toolResults", "projectInsights"}]
CompletionForm == [completion |-> pc, fields |-> DOMAIN chatResult]
CapTerminated == pc = "returned" /\ continueLoop
C5_CapTerminationDistinctInForm ==
  CapTerminated => CompletionForm # NaturalStopForm

\* C6: the returned toolResults holds every ToolResult received in any round
\* of the turn, so its length is that of toolCalls.
C6_AllResultsReturned ==
  pc = "returned" => Len(chatResult.toolResults) = Len(chatResult.toolCalls)

\* C7: the returned toolCalls holds every call decoded in any round, in round
\* order then batch order; actions holds one tool_call action per call and
\* one tool_result action per executed call, so it is twice as long.
C7_CallsAndActionsComplete ==
  pc = "returned" =>
    /\ chatResult.toolCalls = parseToolCalls(chatResult.text)
    /\ Len(chatResult.actions) = 2 * Len(chatResult.toolCalls)
    /\ CountType("tool_call", chatResult.actions) = Len(chatResult.toolCalls)
    /\ CountType("tool_result", chatResult.actions) = toolRuns
    /\ toolRuns = Len(chatResult.toolCalls)
    /\ LET IsCall(a) == a.type = "tool_call"
           announced == SelectSeq(chatResult.actions, IsCall)
       IN \A i \in 1..Len(announced) :
            /\ announced[i].id = chatResult.toolCalls[i].id
            /\ announced[i].name = chatResult.toolCalls[i].name
C7_Witness ==
  /\ pc = "returned"
  /\ genCalls = 3
  /\ Len(chatResult.toolCalls) = 2
  /\ Len(chatResult.actions) = 4

\* C8: after each executed batch a system "tool results" message summarizing
\* the batch's results is appended to the ledger.
C8_FeedbackAppendedToLedger ==
  (pc = "loop" /\ Len(toolResults) > 0) =>
    /\ Len(conversationHistory) > 0
    /\ conversationHistory[Len(conversationHistory)]
         = Message("system", "toolResults", <<>>, formatToolResults(toolResults))

\* C9: the context of the generation call of round r+1 holds one system
\* feedback message that lists every result of round r's batch once, in
\* batch order, with its tool name and id, with status ERROR exactly when the
\* result carries an error, and otherwise SUCCESS with the serialized payload.
C9_FeedbackListsBatch ==
  (pc = "generating" /\ iterationCount > 1) =>
    LET IsFeedback(m) == m.kind = "toolResults"
        fb == SelectSeq(messages, IsFeedback)
    IN /\ Len(fb) = 1
       /\ fb[1].role = "system"
       /\ Len(fb[1].results) = Len(toolResults)
       /\ Len(toolResults) > 0
       /\ \A i \in 1..Len(toolResults) :
            LET e == fb[1].results[i]
                r == toolResults[i]
            IN /\ e.name = r.name
               /\ e.id = r.id
               /\ e.status \in {"ERROR", "SUCCESS"}
               /\ e.status = "ERROR" <=> r.error # Undefined
               /\ e.status = "ERROR" => e.output = <<"text", r.error>>
               /\ e.status = "SUCCESS" => e.output = JSONStringify(r.result)
C9_Witness ==
  /\ pc = "generating"
  /\ iterationCount = 3
  /\ Len(toolResults) = 2
  /\ toolResults[1].error = Undefined
  /\ toolResults[2].error # Undefined

\* C10 (as stated): over the lifetime of the engine the project summary is
\* put in a generation context once only, in the first iteration of the
\* first turn.
C10_SummaryOncePerLifetime ==
  /\ SumSeq(summaries) <= 1
  /\ \A t \in 2..Len(summaries) : summaries[t] = 0
\* C10 (amended): in every turn the project summary is put in the context of
\* the turn's first generation call and of no later round of that turn.
C10_SummaryOncePerTurn ==
  /\ turn >= 1 => summaries[turn] = (IF genCalls >= 1 THEN 1 ELSE 0)
  /\ \A t \in 1..Len(summaries) : summaries[t] <= 1
  /\ pc = "generating" =>
       CountKind("summary", messages) = (IF iterationCount = 1 THEN 1 ELSE 0)
C10_Witness ==
  /\ turn = 2
  /\ summaries = <<1, 1>>
  /\ pc = "generating"
  /\ iterationCount = 2

\* C11: between two invalidations (clearCache) the analysis of the project
\* completes and fills the memo at most once, also when analyzeProject() is
\* called again before an earlier call has finished.
C11_AnalysisAtMostOnce == computed <= 1

\* ---- C12
IsPrefix(a, b) == Len(a) <= Len(b) /\ SubSeq(b, 1, Len(a)) = a
\* C12: every step other than clearHistory() keeps the ledger as a prefix of
\* the ledger after it, and a caller that mutates the array getHistory()
\* returned leaves the ledger as it was.
C12_LedgerAppendOnly ==
  [][/\ ClearHistory \/ IsPrefix(conversationHistory, conversationHistory')
     /\ CallerMutates => conversationHistory' = conversationHistory]_allVars
C12_Witness ==
  /\ historyView.taken
  /\ Len(historyView.arr) >= 1
  /\ historyView.arr[1] = Junk
  /\ Len(conversationHistory) >= 3
  /\ conversationHistory[1].kind = "user"
  /\ \E c \in DOMAIN chats : chats[c].pc = "executing"

\* C13: the action timeline of the response of a turn is exactly the sequence
\* of actions the observer received during the turn.
C13_TimelineIsWhatObserverReceived ==
  pc = "returned" => chatResult.actions = observed

\* C14: at most one generation call of one engine instance is in progress at
\* any time, also when chat() is called again before an earlier call returned.
C14_OneGenerationInFlight ==
  Cardinality({c \in DOMAIN chats : chats[c].pc = "generating"}) <= 1

\* C15: executeTools starts every call of a batch before it waits for any
\* result; the loop leaves the batch, with one result per call, only when
\* every call has settled; and a call that settles, failed or not, neither
\* cancels a sibling that is pending nor changes a result already settled.
C15_FanOutFanIn ==
  /\ [](pc = "executing" =>
          /\ Len(settled) = Len(toolCalls)
          /\ toolRuns >= Len(toolCalls)
          /\ (\E i \in 1..Len(toolCalls) : ~settled[i].done) => ENABLED SettleTool)
  /\ [][/\ (pc = "executing" /\ pc' = "executing") =>
             \A j \in 1..Len(toolCalls) :
               /\ settled[j].done => settled'[j] = settled[j]
               /\ settled'[j].done => settled'[j].r.id = toolCalls[j].id
        /\ (pc = "executing" /\ pc' # "executing") =>
             /\ \A j \in 1..Len(toolCalls) : settled[j].done
             /\ toolResults' = [j \in 1..Len(toolCalls) |-> settled[j].r]
             /\ genCalls' = genCalls]_allVars
C15_Witness ==
  /\ pc = "loop"
  /\ Len(toolCalls) = 2
  /\ Len(toolResults) = 2
  /\ toolResults[1].error # Undefined
  /\ toolResults[2].error = Undefined
  /\ toolResults[2].result # Null

\* ---- C18
\* The tool_calls arrays of the fenced blocks whose body is a JSON object
\* with an array tool_calls, concatenated in document order.
RECURSIVE DocumentOrderCalls(_)
DocumentOrderCalls(text) ==
  IF text = <<>> THEN <<>>
  ELSE LET seg == Head(text)
           got == IF seg.kind = "fence" /\ seg.json = "object"
                  THEN seg.tool_calls ELSE <<>>
       IN got \o DocumentOrderCalls(Tail(text))
\* C18: parseToolCalls returns exactly the concatenation, in document order,
\* of the tool_calls of the well-formed blocks of the text; a block whose
\* body is not such an object contributes nothing and hides no other block.
C18_DecodesEveryWellFormedBlock ==
  decoded.done => decoded.calls = DocumentOrderCalls(parseInput)

\* ---- C16
NotFoundResult(call) ==
  [id |-> call.id, name |-> call.name, result |-> Null,
   error |-> "Tool '" \o call.name \o "' not found"]
\* C16: a call that names a tool outside the catalog settles (nothing is
\* thrown) with a result that has the call's id, a null payload and the
\* not-found message; the loop then goes on to the next round, whose context
\* lists that result as an ERROR with that message.
C16_UnknownToolYieldsNotFound ==
  /\ pc = "executing" =>
       \A i \in 1..Len(toolCalls) :
         (settled[i].done /\ toolCalls[i].name \notin RegisteredTools)
           => settled[i].r = NotFoundResult(toolCalls[i])
  /\ Len(toolResults) = Len(toolCalls) =>
       \A i \in 1..Len(toolCalls) :
         toolCalls[i].name \notin RegisteredTools =>
           /\ toolResults[i] = NotFoundResult(toolCalls[i])
           /\ pc = "loop" =>
                /\ continueLoop
                /\ iterationCount < maxIterations => ENABLED BeginRound
           /\ pc = "generating" =>
                LET fb == messages[Len(messages)] IN
                /\ fb.kind = "toolResults"
                /\ Len(fb.results) = Len(toolCalls)
                /\ fb.results[i].id = toolCalls[i].id
                /\ fb.results[i].status = "ERROR"
                /\ fb.results[i].output = <<"text", NotFoundResult(toolCalls[i]).error>>
C16_Witness ==
  /\ pc = "generating"
  /\ iterationCount = 2
  /\ Len(toolCalls) = 2
  /\ toolCalls[1].name = "no_such_tool"
  /\ Len(toolResults) = 2

\* C17: when the generation call of a round fails, chat() rejects: the call
\* leaves the round for the rejected state with no text, no further
\* generation call, no tool run and no ledger entry; and once rejected, the
\* turn takes no further step (no retry, no tool, no response).
C17_GenerationFailureRejects ==
  /\ [](pc = "rejected" =>
          /\ ~ENABLED BeginRound
          /\ ~ENABLED GenerateOk
          /\ ~ENABLED SettleTool
          /\ ~ENABLED FanIn
          /\ ~ENABLED Return)
  /\ [][(pc = "generating" /\ pc' # "generating" /\ response' = <<>>) =>
          /\ pc' = "rejected"
          /\ genCalls' = genCalls
          /\ toolRuns' = toolRuns
          /\ conversationHistory' = conversationHistory
          /\ chatResult' = chatResult]_allVars
C17_Witness ==
  /\ pc = "rejected"
  /\ iterationCount = 2
  /\ genCalls = 2
  /\ toolRuns = 2
  /\ Len(toolResults) = 2

\* ---- C19
HasPayload(r) == r.result \notin {Null, Undefined}
HasError(r) == r.error # Undefined
ExactlyOne(results) ==
  \A i \in 1..Len(results) : HasPayload(results[i]) # HasError(results[i])
\* C19: every ToolResult, however the handler of its call ended and also
\* for an unknown tool, has either a payload or a failure message, never
\* both and never neither.
C19_PayloadXorError ==
  /\ ExactlyOne(toolResults)
  /\ ExactlyOne(allToolResults)
  /\ ExactlyOne(chatResult.toolResults)
  /\ \A i \in 1..Len(settled) :
       settled[i].done => HasPayload(settled[i].r) # HasError(settled[i].r)
C19_Witness ==
  /\ pc = "loop"
  /\ Len(toolResults) = 2
  /\ toolResults[1].error = "error in write_file"
  /\ toolResults[2].result = "payload of read_file"

\* C20: the ids of the calls of a batch returned by the decoder are pairwise
\* distinct, whatever ids the text holds.
C20_BatchIdsDistinct == decoded.done => DistinctIds(decoded.calls)

\* C21: a run_command call whose command holds a deny-listed string gives a
\* failure ToolResult, and no process is spawned for it.
C21_DangerousCommandBlocked ==
  (toolOut.name = "run_command"
   /\ \E cmd \in dangerous : Includes(toolOut.input, cmd)) =>
    /\ toolOut.result.error # Undefined
    /\ toolOut.result.result = Null
    /\ ~toolOut.spawned
C21_Witness ==
  /\ toolOut.name = "run_command"
  /\ toolOut.input = <<"rm", " ", "-rf">>
  /\ toolOut.result.error = "Command failed: Dangerous command blocked"

\* The tools of the capability catalog as the specification lists them.
SpecifiedCatalog ==
  {"read_file", "write_file", "list_files", "search_files", "delete_file",
   "get_working_directory", "analyze_project", "analyze_code",
   "find_dependencies", "git_status", "git_commit", "git_diff", "run_tests",
   "generate_tests", "install_package", "check_outdated", "run_command",
   "build_project"}

\* C24: a call that names a tool of the specified catalog is dispatched to a
\* handler of the engine's catalog and never gets the not-found result.
C24_CatalogToolsRegistered ==
  toolOut.name \in SpecifiedCatalog =>
    toolOut.result.error # "Tool '" \o toolOut.name \o "' not found"

\* C27: whatever the test or build command does (also on a non-zero exit or
\* a timeout), the ToolResult of run_tests and of build_project has no error,
\* carries a payload whose success and passed / buildSucceeded are false when
\* the command failed, and is reported to the model with status SUCCESS.
C27_TestsAndBuildNeverFail ==
  toolOut.name \in {"run_tests", "build_project"} =>
    LET failed == toolOut.input[1] \in {"nonzero", "timeout"}
        payload == toolOut.result.result
    IN /\ toolOut.result.error = Undefined
       /\ formatToolResults(<<toolOut.result>>)[1].status = "SUCCESS"
       /\ formatToolResults(<<toolOut.result>>)[1].output = JSONStringify(payload)
       /\ failed => ~payload.success
       /\ (failed /\ toolOut.name = "run_tests") => ~payload.passed
       /\ (failed /\ toolOut.name = "build_project") => ~payload.buildSucceeded
C27_Witness ==
  /\ toolOut.name = "run_tests"
  /\ toolOut.input = <<"timeout">>
  /\ toolOut.spawned
  /\ toolOut.result.error = Undefined

\* C29: analyze_code gives an empty file the complexity score 1 and no
\* issue; for every file the score is 1 plus the number of conditional and
\* loop keywords matched plus the number of && and || operators, so it is at
\* least 1.
C29_ComplexityBaseline ==
  (toolOut.name = "analyze_code" /\ toolOut.result.error = Undefined) =>
    LET code == toolOut.input
        payload == toolOut.result.result
        keywords == Cardinality({i \in 1..Len(code) : code[i] \in Conditionals})
        operators == Cardinality({i \in 1..Len(code) : code[i] \in LogicalOps})
    IN /\ payload.complexity = 1 + keywords + operators
       /\ payload.complexity >= 1
       /\ code = <<>> => (payload.complexity = 1 /\ payload.issues = <<>>)
C29_Witness ==
  /\ toolOut.name = "analyze_code"
  /\ toolOut.input = <<>>
  /\ toolOut.result.error = Undefined
  /\ toolOut.result.result.complexity = 1

\* C30: the toolResults of a returned response of the elite engine is non-empty
\* exactly when the turn ended at the iteration cap with the batch of the
\* last round executed (it then holds that batch's results); a turn that
\* ends with a round without tool calls returns an empty toolResults.
C30_ResultsOnlyAtCap ==
  pc = "returned" =>
    /\ (chatResult.toolResults # <<>>) <=>
         (continueLoop /\ iterationCount = EliteMaxIterations /\ toolResults # <<>>)
    /\ ~continueLoop => chatResult.toolResults = <<>>
    /\ CapTerminated => chatResult.toolResults = toolResults
C30_Witness ==
  /\ pc = "returned"
  /\ iterationCount = EliteMaxIterations
  /\ continueLoop
  /\ Len(chatResult.toolResults) > 0
  /\ Len(chatResult.toolCalls) > Len(chatResult.toolResults)

\* A full path that lies in the working root: the root or a descendant.
InsideRoot(fullPath) ==
  fullPath = workingDirectory \/ startsWith(fullPath, workingDirectory \o <<"/">>)
\* A path that denotes the empty path, the filesystem root or the working
\* directory, in any spelling.
DenotesRoot(filePath) ==
  \/ filePath = <<>>
  \/ pathResolve(workingDirectory, filePath) = <<"/">>
  \/ pathResolve(workingDirectory, filePath) = workingDirectory

\* C22: deleteFile refuses every path that denotes the empty path, the
\* filesystem root or the working directory, in any spelling: it fails with
\* an error and hands nothing to the removal.
C22_DeleteRefusesRoot ==
  (fsOut.op = "deleteFile" /\ DenotesRoot(fsOut.path)) =>
    fsOut.error # "" /\ fsOut.target = <<>>

\* C23: every path that readFile, writeFile or deleteFile accepts resolves
\* into the working root, and a path that resolves outside the root is
\* rejected with an error before the file system is touched.
C23_AcceptedPathsInsideRoot ==
  /\ fsOut.target # <<>> => InsideRoot(fsOut.target)
  /\ (fsOut.op # "" /\ ~InsideRoot(pathResolve(workingDirectory, fsOut.path))) =>
       fsOut.error # "" /\ fsOut.target = <<>>

\* C25: when two write_file calls of a batch on the same path have both
\* succeeded, both results report success without an error, and the file
\* holds the content of the call whose write completed last: never a
\* mixture, never the earlier content.
C25_LastWriteWins ==
  (Len(writers) = 2 /\ \A i \in DOMAIN writers : writers[i].pc = "closed") =>
    /\ \A i \in DOMAIN writers :
         writers[i].result.error = Undefined /\ writers[i].result.result.success
    /\ \E i \in DOMAIN writers : writers[i].order = 2 /\ disk = writers[i].content

\* C26: every text delta of every round is passed to onChunk exactly once,
\* in generation order; the text of the returned response is the
\* concatenation of all deltas of all rounds in that order; and a round is
\* decoded only from its complete text.
C26_DeltasOnceInOrder ==
  /\ stream.chunks = stream.generated
  /\ stream.pc = "returned" => stream.text = stream.generated
  /\ stream.pc = "decoded" => stream.decodedFrom = stream.roundText
C26_Witness ==
  /\ stream.pc = "returned"
  /\ stream.round = 2
  /\ Len(stream.text) = 4
  /\ stream.text[4] = "hi"

\* The requests of a client that one limiter let reach its handler at a time
\* in [from, from + WindowMs).
LetThrough(id, limit, from) ==
  {i \in DOMAIN requests :
     /\ requests[i].id = id /\ requests[i].limit = limit /\ requests[i].next
     /\ requests[i].at >= from /\ requests[i].at < from + WindowMs}

\* C28: for every client, no more than limit requests reach the handler in
\* any time interval of length windowMs.
C28_AtMostLimitPerInterval ==
  \A id \in Clients, limit \in Limits, from \in 0..MaxTime :
    Cardinality(LetThrough(id, limit, from)) <= limit

\* C31: a chat() call changes the ledger only by appending one user message
\* at entry and, exactly when the loop ends with a round without tool calls,
\* one assistant message with that round's text: the ledger never holds a
\* system message, never gets the text of a round that requested tools, and
\* a cap-terminated turn leaves nothing after its user message.
LastMessage == conversationHistory[Len(conversationHistory)]
C31_LedgerFrame ==
  /\ [](\A i \in DOMAIN conversationHistory :
          /\ conversationHistory[i].role \in {"user", "assistant"}
          /\ conversationHistory[i].role = "assistant" =>
               parseToolCalls(conversationHistory[i].text) = <<>>)
  /\ [](pc = "returned" =>
          IF continueLoop
          THEN LastMessage = Message("user", "user", <<>>, <<>>)
          ELSE /\ LastMessage = Message("assistant", "text", response, <<>>)
               /\ conversationHistory[Len(conversationHistory) - 1].role = "user")
  /\ [][/\ turn' # turn =>
             conversationHistory' = Append(conversationHistory, Message("user", "user", <<>>, <<>>))
        /\ (turn' = turn /\ conversationHistory' # conversationHistory) =>
             /\ pc = "generating"
             /\ ~continueLoop'
             /\ toolCalls' = <<>>
             /\ conversationHistory' =
                  Append(conversationHistory, Message("assistant", "text", response', <<>>))
        /\ (pc = "generating" /\ pc' = "loop" /\ ~continueLoop') =>
             conversationHistory' # conversationHistory]_allVars
C31_Witness ==
  /\ CapTerminated
  /\ turn = 2
  /\ Len(conversationHistory) = 3
  /\ conversationHistory[2].role = "assistant"
  /\ conversationHistory[3].role = "user"

\* The feedback messages and the assistant messages of the context of the
\* generation call in progress.
IsFeedbackMessage(m) == m.kind = "toolResults"
IsAssistantMessage(m) == m.role = "assistant"
ContextFeedback == SelectSeq(messages, IsFeedbackMessage)
\* C32 (amended): in the elite engine the context of round r > 1 holds the
\* results of round r-1 only, which are then dropped, and no text the model
\* produced in an earlier round of the turn, so a ToolResult is shown in at
\* most one context, that of the next round; in the basic engine the context
\* of every round holds the results of all earlier rounds of the turn.
C32_ShownInNextRoundOnly ==
  pc = "generating" =>
    /\ iterationCount = 1 => ContextFeedback = <<>>
    /\ LastMessage = Message("user", "user", <<>>, <<>>)
    /\ Len(SelectSeq(messages, IsAssistantMessage)) < turn
    /\ \A i \in DOMAIN messages :
         IsAssistantMessage(messages[i]) => i < Len(conversationHistory) + 1
    /\ (agent = "elite" /\ iterationCount > 1) =>
         /\ Len(ContextFeedback) = 1
         /\ ContextFeedback[1].results = formatToolResults(toolResults)
         /\ toolResults # <<>>
         /\ allToolResults = <<>>
    /\ (agent = "basic" /\ iterationCount > 1) =>
         /\ Len(ContextFeedback) = 1
         /\ ContextFeedback[1].results = formatToolResults(allToolResults)
         /\ Len(allToolResults) = toolRuns
         /\ toolRuns > 0
C32_Witness ==
  /\ agent = "elite"
  /\ pc = "generating"
  /\ iterationCount = 3
  /\ toolRuns > Len(toolResults)
  /\ Len(ContextFeedback[1].results) = 1
\* C32 (as stated): moreover every ToolResult is shown in a context, so the
\* elite engine holds no result that was not fed back when chat() returns.
C32_ShownInExactlyOneContext ==
  /\ C32_ShownInNextRoundOnly
  /\ (agent = "elite" /\ pc = "returned") => allToolResults = <<>>

\* C33: a failure of the project analysis does not abort the turn: chat()
\* still makes its first generation call, so a turn is rejected only from a
\* generation call.
C33_AnalysisFailureSwallowed ==
  pc = "rejected" => genCalls >= 1

\* C34: no tool of the catalog spawns a process whose command line holds a
\* deny-listed string, whatever the parameters of the call.
C34_NoDangerousCommandSpawned ==
  \A command \in toolOut.commands : ~IsDangerous(command)

\* The last n elements of a sequence.
Suffix(seq, n) == SubSeq(seq, Len(seq) - n + 1, Len(seq))
\* C35: while a batch is executing, whichever of its calls have settled, the
\* timeline and the observer end with the tool_call actions of all its calls
\* and hold no tool_result of it; once all have settled they end with these
\* followed by one tool_result action per call, in the order of the calls.
C35_BatchActionsOrdered ==
  LET n == Len(toolCalls) IN
  /\ pc = "executing" =>
       /\ n > 0
       /\ Len(actions) >= n /\ Suffix(actions, n) = ToolCallActions(toolCalls)
       /\ Len(observed) >= n /\ Suffix(observed, n) = ToolCallActions(toolCalls)
  /\ (pc = "loop" /\ toolResults # <<>>) =>
       /\ Len(toolResults) = n
       /\ Len(actions) >= 2 * n /\ Len(observed) >= 2 * n
       /\ Suffix(actions, 2 * n) = ToolCallActions(toolCalls) \o ToolResultActions(toolResults)
       /\ Suffix(observed, 2 * n) = Suffix(actions, 2 * n)
       /\ \A i \in 1..n : Suffix(actions, n)[i].id = toolCalls[i].id
C35_Witness ==
  /\ pc = "executing"
  /\ Len(toolCalls) = 2
  /\ settled[2].done
  /\ ~settled[1].done
  /\ observed[Len(observed)].type = "tool_call"

\* C36: a failed chat() is not rolled back.  Once rejected, the ledger ends
\* with the user message of the failed turn (no assistant message for it);
\* the failing step runs no tool and leaves the results of the tools already
\* run as they are, so nothing undoes what they did; and the next chat()
\* appends its user message after the orphan one, every context holding the
\* whole ledger.
UserMessage == Message("user", "user", <<>>, <<>>)
ClearedSinceLastChat == \A i \in DOMAIN conversationHistory : conversationHistory[i].role # "user"
C37_ClearStartsAfresh ==
  [][/\ (conversationHistory # <<>> /\ conversationHistory' = <<>>) => understanding' = Null
     /\ Len(chats') = Len(chats) + 1 =>
          IF ClearedSinceLastChat
          THEN /\ conversationHistory' = <<UserMessage>>
               /\ chats'[Len(chats')].pc = "analyzing"
          ELSE understanding # Null => chats'[Len(chats')].pc # "analyzing"]_allVars

\* C38: the record a limiter has just read or written holds a count between
\* 1 and that limiter's limit; a request is passed on exactly when the client
\* has no record, the record's window has expired (the record then becomes
\* count 1 with a window starting now) or the count is below the limit; and a
\* rejected request leaves the store as it was.
LastRequest == requests[Len(requests)]
C38_CountWithinLimit ==
  /\ [](requests # <<>> =>
          /\ Has(LastRequest.id)
          /\ Get(LastRequest.id).count >= 1
          /\ Get(LastRequest.id).count <= LastRequest.limit)
  /\ [][Len(requests') = Len(requests) + 1 =>
          LET r == requests'[Len(requests')]
              fresh == ~Has(r.id) \/ now > Get(r.id).resetTime
          IN /\ r.next <=> (fresh \/ Get(r.id).count < r.limit)
             /\ fresh => [id |-> r.id, count |-> 1, resetTime |-> now + WindowMs]
                            \in rateLimitStore'
             /\ ~r.next => rateLimitStore' = rateLimitStore]_allVars

\* C39: a chat_message on a socket without a session is answered with an
\* error and reaches no agent; the sessions of two sockets hold different
\* agents and a ledger holds only messages of the socket of its session; an
\* init_agent that succeeds gives the socket an agent constructed just now,
\* with an empty ledger, also when the socket already had a session; and a
\* socket that has disconnected has no session.
C39_SessionPerSocket ==
  /\ [](\A s \in Sockets :
          /\ connected[s] # "open" => agentSessions[s] = NoSession
          /\ agentSessions[s] # NoSession =>
               /\ agentSessions[s] \in DOMAIN ledgers
               /\ \A i \in DOMAIN ledgers[agentSessions[s]] :
                    ledgers[agentSessions[s]][i] = s
               /\ \A t \in Sockets \ {s} : agentSessions[t] # agentSessions[s])
  /\ [][/\ (emitted'.on = "chat_message" /\ emitted' # emitted
              /\ agentSessions[emitted'.socket] = NoSession) =>
             /\ emitted'.emit = "error"
             /\ ledgers' = ledgers
        /\ ledgers' # ledgers =>
             \/ /\ emitted'.on = "chat_message"
                /\ agentSessions[emitted'.socket] # NoSession
             \/ emitted'.on = "init_agent"
        /\ (emitted'.emit = "agent_initialized" /\ Len(ledgers') > Len(ledgers)) =>
             /\ agentSessions'[emitted'.socket] = Len(ledgers')
             /\ \A t \in Sockets : agentSessions[t] # Len(ledgers')
             /\ ledgers'[Len(ledgers')] = <<>>]_allVars
C39_Witness ==
  /\ agentSessions[1] = 3
  /\ ledgers[1] = <<1>>
  /\ ledgers[2] = <<2>>
  /\ ledgers[3] = <<>>
  /\ connected[2] = "closed"
  /\ emitted = Event(1, "init_agent", "agent_initialized")

\* C40: the middlewares run in the order of the list, each at most once; the
\* handler is called at most once and only when every middleware of the list
\* has run and called next(); and once a middleware has answered (429, 413)
\* without calling next(), no later middleware and not the handler runs.
Stops(p) == {i \in DOMAIN p.middlewares : Answer(p.middlewares[i], p.req) # 0}
C40_MiddlewareOrder ==
  /\ Len(pipeline.ran) <= Len(pipeline.middlewares)
  /\ \A i \in DOMAIN pipeline.ran : pipeline.ran[i] = pipeline.middlewares[i]
  /\ pipeline.handled <= 1
  /\ pipeline.handled = 1 =>
       /\ pipeline.ran = pipeline.middlewares
       /\ pipeline.status = 0
       /\ Stops(pipeline) = {}
  /\ \A i \in Stops(pipeline) :
       /\ Len(pipeline.ran) <= i
       /\ pipeline.handled = 0
  /\ pipeline.pc \in {"ended", "handled"} => ~ENABLED CallNext
C40_Witness ==
  /\ pipeline.pc = "ended"
  /\ pipeline.middlewares = <<"securityHeaders", "rateLimit", "validateBodySize">>
  /\ pipeline.ran = <<"securityHeaders", "rateLimit">>
  /\ pipeline.status = 429
  /\ pipeline.req.contentLength > MaxBody
  /\ pipeline.handled = 0

====
